---- MODULE Spec2Model ----
(***************************************************************************)
(* A model of cdp_web/magic.js: the polling loop (fetch_the_goods), the    *)
(* flattener (simpleflat), the broker index (per_broker), the broker       *)
(* option list (update_brokers), the series builder (rechart) and the      *)
(* update entry point (u).                                                 *)
(*                                                                         *)
(* JavaScript values are encoded as follows.                               *)
(*   - a Date is a record [kind, day, sec, ms]: kind "ok" for a parsed     *)
(*     instant (day since the epoch day, second of that day, millisecond   *)
(*     of that second), "invalid" for Invalid Date, "undef" for a field    *)
(*     never assigned.  Instants compare on (day, sec, ms); the string     *)
(*     form of a Date (Date.prototype.toString) holds the weekday name and *)
(*     the time of day to the second, and no milliseconds.                 *)
(*   - a sensor id is a record [kind, n, s]: kind "num" for a JSON number, *)
(*     "str" for a JSON string, "undef" for a missing field.               *)
(*   - an object is a record [order, at]: its own keys in insertion order  *)
(*     and the mapping from key to value.                                  *)
(***************************************************************************)
EXTENDS Integers, Sequences, FiniteSets, TLC

\* ------------------------------------------------------------------ values

\* The value `undefined` where a number is expected (a miss of bytime[time],
\* a flat record's value never assigned).
UNDEF == -1

\* The value `undefined` where a string is expected (flat["topic"] never
\* assigned): it equals no string a select box can hold.
UndefStr == "<undefined>"

\* NaN as the number a text input converts to when it is not numeric.
NaN == -1

UndefSid == [kind |-> "undef", n |-> 0, s |-> ""]
NumSid(n) == [kind |-> "num", n |-> n, s |-> ""]
StrSid(s) == [kind |-> "str", n |-> 0, s |-> s]

UndefDate == [kind |-> "undef", day |-> 0, sec |-> 0, ms |-> 0]
InvalidDate == [kind |-> "invalid", day |-> 0, sec |-> 0, ms |-> 0]
At(day, sec, ms) == [kind |-> "ok", day |-> day, sec |-> sec, ms |-> ms]

\* new Date(msg["constructed_when"]): an ISO-8601 string parses to its
\* instant, anything else to Invalid Date.  A raw timestamp is written as
\* the record of its parts, or as InvalidDate when the text does not parse.
NewDate(cw) == IF cw.kind = "ok" THEN cw ELSE InvalidDate

\* The order of the underlying instants (Date.prototype.valueOf).
InstantLess(a, b) ==
  \/ a.day < b.day
  \/ a.day = b.day /\ a.sec < b.sec
  \/ a.day = b.day /\ a.sec = b.sec /\ a.ms < b.ms

\* Day 0 is the epoch day, a Thursday.
WeekdayName(day) ==
  CASE day % 7 = 0 -> "Thu"
    [] day % 7 = 1 -> "Fri"
    [] day % 7 = 2 -> "Sat"
    [] day % 7 = 3 -> "Sun"
    [] day % 7 = 4 -> "Mon"
    [] day % 7 = 5 -> "Tue"
    [] OTHER -> "Wed"

\* String(date), as used for a property key and by Array.prototype.sort:
\* "Www Mmm dd yyyy HH:MM:SS GMT..." or "Invalid Date".  Within one week the
\* weekday stands for the date; milliseconds are not printed.
DateToString(d) ==
  IF d.kind = "ok" THEN [head |-> WeekdayName(d.day), sec |-> d.sec]
  ELSE IF d.kind = "invalid" THEN [head |-> "Invalid Date", sec |-> 0]
  ELSE [head |-> "undefined", sec |-> 0]

\* The rank of a string's head in code-unit order:
\* "Fri" < "Invalid Date" < "Mon" < "Sat" < "Sun" < "Thu" < "Tue" < "Wed" < "undefined".
HeadRank(h) ==
  CASE h = "Fri" -> 0
    [] h = "Invalid Date" -> 1
    [] h = "Mon" -> 2
    [] h = "Sat" -> 3
    [] h = "Sun" -> 4
    [] h = "Thu" -> 5
    [] h = "Tue" -> 6
    [] h = "Wed" -> 7
    [] OTHER -> 8

\* x < y on the string forms (the default comparison of Array.prototype.sort).
StringLess(x, y) ==
  \/ HeadRank(x.head) < HeadRank(y.head)
  \/ HeadRank(x.head) = HeadRank(y.head) /\ x.sec < y.sec

\* kn.toLowerCase() on the topic names of the feed.
ToLowerCase(kn) ==
  CASE kn = "Temperature" -> "temperature"
    [] kn = "Humidity" -> "humidity"
    [] OTHER -> kn

\* The property key a sensor id converts to: a number gives an integer
\* index key, undefined gives the key "undefined".
PropertyKey(sid) ==
  IF sid.kind = "num" THEN [idx |-> TRUE, n |-> sid.n, s |-> ""]
  ELSE IF sid.kind = "str" THEN [idx |-> FALSE, n |-> 0, s |-> sid.s]
  ELSE [idx |-> FALSE, n |-> 0, s |-> "undefined"]

\* ----------------------------------------------------------------- objects

EmptyObject == [order |-> <<>>, at |-> <<>>]

HasOwnProperty(obj, k) == k \in DOMAIN obj.at

\* obj[k] = v
PutProperty(obj, k, v) ==
  IF k \in DOMAIN obj.at
  THEN [order |-> obj.order, at |-> [obj.at EXCEPT ![k] = v]]
  ELSE [order |-> Append(obj.order, k),
        at |-> [x \in DOMAIN obj.at \cup {k} |-> IF x = k THEN v ELSE obj.at[x]]]

\* for (k in obj): integer index keys in ascending order, then the other
\* keys in insertion order.
RECURSIVE AscendingIdx(_)
AscendingIdx(ks) ==
  IF ks = {} THEN <<>>
  ELSE LET lo == CHOOSE k \in ks : \A o \in ks : k.n <= o.n
       IN <<lo>> \o AscendingIdx(ks \ {lo})

ForIn(obj) ==
  LET idx == {obj.order[i] : i \in {j \in DOMAIN obj.order : obj.order[j].idx}}
  IN AscendingIdx(idx) \o SelectSeq(obj.order, LAMBDA k : ~k.idx)

\* for (const broker in per_broker): broker ids are not integer-like
\* strings, so the keys come in insertion order.
ForInBrokers(obj) == obj.order

RECURSIVE Reverse(_)
Reverse(s) == IF s = <<>> THEN <<>> ELSE Append(Reverse(Tail(s)), Head(s))

\* --------------------------------------------------------------- flattener

\* The flat record while nothing is assigned to it: let flat = {}.
EmptyFlat ==
  [present |-> TRUE, topic |-> UndefStr, sensor_id |-> UndefSid,
   value |-> UNDEF, when |-> UndefDate]

\* msg["flat"] of a message that simpleflat has not annotated.
NoFlat == [EmptyFlat EXCEPT !.present = FALSE]

\* One iteration of `for (let kn in sd)`: topic, sensor_id, the value of
\* every key of the reading other than sensor_id (the last one stays), when.
FlatStep(flat, entry, cw) ==
  LET n == Len(entry.metrics)
  IN [flat EXCEPT !.topic = ToLowerCase(entry.kn),
                  !.sensor_id = entry.sensor_id,
                  !.value = IF n = 0 THEN flat.value ELSE entry.metrics[n],
                  !.when = NewDate(cw)]

RECURSIVE FlatLoop(_, _, _)
FlatLoop(flat, sd, cw) ==
  IF sd = <<>> THEN flat
  ELSE FlatLoop(FlatStep(flat, Head(sd), cw), Tail(sd), cw)

\* simpleflat(msg): raises when msg["payload"] is undefined; a missing
\* SensorData is iterated as an empty mapping.
simpleflatSkips(msg) ==
  IF ~msg.payload.present
  THEN [raised |-> TRUE, msg |-> msg]
  ELSE IF ~msg.payload.has_sd \/ msg.payload.sd = <<>>
  THEN [raised |-> FALSE, msg |-> msg]
  ELSE [raised |-> FALSE,
        msg |-> [msg EXCEPT !.flat =
                   FlatLoop(EmptyFlat, msg.payload.sd, msg.constructed_when)]]
simpleflat(msg) ==
  IF ~msg.payload.present
  THEN [raised |-> TRUE, msg |-> msg]
  ELSE [raised |-> FALSE,
        msg |-> [msg EXCEPT !.flat =
                   FlatLoop(EmptyFlat,
                            IF msg.payload.has_sd THEN msg.payload.sd ELSE <<>>,
                            msg.constructed_when)]]

\* ------------------------------------------------------------ broker index

\* The property key of msg["broker_id"].
BrokerKey(b) == IF b = UndefStr THEN "undefined" ELSE b

\* per_broker = {} at the head of the response callback.
FreshIndexStale(old) == old
FreshIndex(old) == EmptyObject

\* The body of `for (let msg of msgs)`.
IndexStep(index, m) ==
  LET bid == BrokerKey(m.broker_id)
      made == IF ~HasOwnProperty(index, bid) THEN PutProperty(index, bid, <<>>)
              ELSE index
  IN PutProperty(made, bid, Append(made.at[bid], m))

\* The response callback on json: msgs = json, per_broker = {} and the loop,
\* which stops at the first message simpleflat raises on.  i counts from 1.
RECURSIVE IndexLoop(_, _, _)
IndexLoop(list, i, index) ==
  IF i > Len(list) THEN [msgs |-> list, per_broker |-> index, raised |-> FALSE]
  ELSE LET r == simpleflat(list[i])
       IN IF r.raised
          THEN [msgs |-> list, per_broker |-> index, raised |-> TRUE]
          ELSE IndexLoop([list EXCEPT ![i] = r.msg], i + 1, IndexStep(index, r.msg))

OnResponse(json, old_index) == IndexLoop(json, 1, FreshIndex(old_index))

\* ---------------------------------------------------------- series builder

\* some colors lol
colors ==
  <<"red", "green", "orange", "blue", "purple", "cyan", "magenta", "lime",
    "darkgreen">>

\* color(): the color at the cursor; the caller advances the cursor by one.
color(cursor) == colors[(cursor % Len(colors)) + 1]

\* icor = 0 inside rechart.
KeepCursor(cursor) == cursor
ResetCursor(cursor) == 0

\* added < lastn, lastn being the text of in_lastn converted to a number.
AddedAtMost(added, lastn) == lastn # NaN /\ added <= lastn
AddedBelow(added, lastn) == lastn # NaN /\ added < lastn

\* let index = msgarr.length-1, as a position counted from 1.
LastIndexShort(msgarr) == Len(msgarr) - 1
LastIndex(msgarr) == Len(msgarr)

\* The while loop of rechart, index running down from the last message
\* (positions count from 1 here).  consumed lists the positions pushed.
RECURSIVE Walk(_, _, _, _, _)
Walk(msgarr, lastn, topic, index, acc) ==
  IF ~(index >= 1 /\ AddedBelow(acc.added, lastn)) THEN acc
  ELSE LET flat == msgarr[index].flat
       IN IF ~flat.present THEN [acc EXCEPT !.raised = TRUE]
          ELSE IF flat.topic = topic
          THEN LET sid == PropertyKey(flat.sensor_id)
                   made == IF ~HasOwnProperty(acc.fps, sid)
                           THEN PutProperty(acc.fps, sid, <<>>) ELSE acc.fps
               IN Walk(msgarr, lastn, topic, index - 1,
                       [fps |-> PutProperty(made, sid, Append(made.at[sid], flat)),
                        labels |-> Append(acc.labels, flat.when),
                        added |-> acc.added + 1,
                        consumed |-> Append(acc.consumed, index),
                        raised |-> FALSE])
          ELSE Walk(msgarr, lastn, topic, index - 1, acc)

\* labels.sort(): the elements are compared by their string forms; the sort
\* is stable.
RECURSIVE InsertByString(_, _)
InsertByString(sorted, x) ==
  IF sorted = <<>> THEN <<x>>
  ELSE IF StringLess(DateToString(x), DateToString(Head(sorted)))
       THEN <<x>> \o sorted
       ELSE <<Head(sorted)>> \o InsertByString(Tail(sorted), x)

RECURSIVE SortLabels(_)
SortLabels(labels) ==
  IF labels = <<>> THEN <<>>
  ELSE InsertByString(SortLabels(SubSeq(labels, 1, Len(labels) - 1)),
                      labels[Len(labels)])

\* bytime[sf["when"]] = sf["value"] for every flat of the group, in order.
RECURSIVE ByTime(_, _)
ByTime(bytime, flats) ==
  IF flats = <<>> THEN bytime
  ELSE ByTime(PutProperty(bytime, DateToString(Head(flats).when), Head(flats).value),
              Tail(flats))

\* bytime[time]
Lookup(bytime, time) ==
  IF HasOwnProperty(bytime, DateToString(time)) THEN bytime.at[DateToString(time)]
  ELSE UNDEF

\* The dataset of one sensor group; cursor is icor when color() is called.
Dataset(sensor_id, group, labels, cursor) ==
  LET flats == Reverse(group)
      bytime == ByTime(EmptyObject, flats)
  IN [label |-> [text |-> "Sensor #", id |-> sensor_id],
      data |-> [i \in DOMAIN labels |-> Lookup(bytime, labels[i])],
      borderColor |-> color(cursor),
      fill |-> FALSE]

\* rechart(msgarr, lastn, topic, chart), icor being cursor at the call.  The
\* result of the while loop, the sorted labels and the key order of the
\* for-in loop are each computed once and bound, as the locals of the code.
rechart(msgarr, lastn, topic, cursor) ==
  LET start == ResetCursor(cursor)
      Emit(w) ==
        { [raised |-> w.raised,
           labels |-> labels,
           consumed |-> w.consumed,
           fps |-> w.fps,
           datasets |-> [j \in DOMAIN ids |->
                           Dataset(ids[j], w.fps.at[ids[j]], labels, start + j - 1)],
           icor |-> start + Len(ids)]
          : labels \in {SortLabels(w.labels)}, ids \in {ForIn(w.fps)} }
  IN CHOOSE r \in UNION
       { Emit(w) : w \in {Walk(msgarr, lastn, topic, LastIndex(msgarr),
                              [fps |-> EmptyObject, labels |-> <<>>, added |-> 0,
                               consumed |-> <<>>, raised |-> FALSE])} } : TRUE

\* ------------------------------------------------------------------ inputs

\* The longest response body of the feed.
MaxLen == 2
\* The longest message list given to the series builder on its own.
MaxArr == 2
\* The most requests in flight together.
MaxInflight == 2
\* The largest number typed into in_lastn.
MaxLastn == 2
\* The most sensors reporting to one broker.
MaxSensors == 10
\* The longest response body of the feed under the fair timer.
MaxBody == 1

Reading(kn, sid, metrics) == [kn |-> kn, sensor_id |-> sid, metrics |-> metrics]
Payload(sd) == [present |-> TRUE, has_sd |-> TRUE, sd |-> sd]
NoSensorData == [present |-> TRUE, has_sd |-> FALSE, sd |-> <<>>]
NoPayload == [present |-> FALSE, has_sd |-> FALSE, sd |-> <<>>]
Message(bid, cw, payload) ==
  [broker_id |-> bid, constructed_when |-> cw, payload |-> payload, flat |-> NoFlat]

\* The messages the responses of the polled endpoint are made of.
FeedPool ==
  { Message("b1", At(0, 0, 0), Payload(<<Reading("Temperature", NumSid(1), <<20>>)>>)),
    Message("b2", At(0, 1, 0), Payload(<<Reading("Temperature", NumSid(2), <<21>>)>>)),
    Message("b1", At(0, 1, 0), NoPayload) }

\* The messages of one broker the series builder is exercised on: two
\* sensors, two instants within one second, a later second, the next day,
\* another topic, and the malformed payloads.
SeriesPool ==
  { Message("b1", At(0, 0, 100), Payload(<<Reading("Temperature", NumSid(1), <<20>>)>>)),
    Message("b1", At(0, 0, 900), Payload(<<Reading("Temperature", NumSid(1), <<21>>)>>)),
    Message("b1", At(0, 0, 100), Payload(<<Reading("Temperature", NumSid(2), <<22>>)>>)),
    Message("b1", At(0, 1, 0), Payload(<<Reading("Temperature", StrSid("s"), <<23>>)>>)),
    Message("b1", At(1, 0, 0), Payload(<<Reading("Temperature", NumSid(1), <<24>>)>>)),
    Message("b1", At(0, 1, 0), Payload(<<Reading("Humidity", NumSid(1), <<50>>)>>)),
    Message("b1", At(0, 1, 0), NoSensorData),
    Message("b1", At(0, 1, 0), Payload(<<Reading("Temperature", UndefSid, <<25>>)>>)),
    Message("b1", InvalidDate, Payload(<<Reading("Temperature", NumSid(1), <<26>>)>>)) }

ListsOf(pool, n) == UNION {[1..k -> pool] : k \in 0..n}

Responses == ListsOf(FeedPool, MaxLen)

Topics == {"temperature", "humidity"}
Lastns == {NaN} \cup (0..MaxLastn)

\* ------------------------------------------------------------------- state

VARIABLES
  msgs,         \* let msgs
  per_broker,   \* let per_broker
  icor,         \* let icor
  chart,        \* chart.data
  sel_broker,   \* sel_broker.value
  sel_options,  \* the option values of sel_broker, in order
  sel_topic,    \* sel_topic.value
  in_lastn,     \* in_lastn.value, converted to a number
  pending,      \* the requests in flight, oldest first
  rc,           \* the arguments and locals of the latest rechart call
  last,         \* the handler that ran last
  memo          \* an earlier rechart call, kept to compare later calls with

vars ==
  <<msgs, per_broker, icor, chart, sel_broker, sel_options, sel_topic, in_lastn,
    pending, rc, last, memo>>

\* ------------------------------------------------------------- operations

\* sel_broker.value = prev: the option with that value gets selected, and
\* with no such option none is and the value reads "".
SelectValue(options, prev) ==
  IF \E i \in DOMAIN options : options[i] = prev THEN prev ELSE ""

\* update_brokers(): the option list and the selection it leaves.
KeepSelection(index, prev) ==
  [options |-> <<"">> \o ForInBrokers(index), value |-> prev]
update_brokers(index, prev) ==
  LET options == <<"">> \o ForInBrokers(index)
  IN [options |-> options, value |-> SelectValue(options, prev)]

\* per_broker[broker] || []
BucketOf(index, broker) ==
  IF HasOwnProperty(index, broker) THEN index.at[broker] ELSE <<>>

\* u(was_auto) on the given index and selection: the call of rechart and
\* what it leaves in icor, chart and the record of the call.
u(index, broker, event) ==
  \E msgarr \in {BucketOf(index, broker)} :
    \E r \in {rechart(msgarr, in_lastn', sel_topic', icor)} :
      /\ icor' = IF r.raised THEN icor ELSE r.icor
      /\ chart' = IF r.raised THEN chart
                  ELSE [chart EXCEPT !.datasets = r.datasets]
      /\ rc' = [broker |-> broker, msgarr |-> msgarr, lastn |-> in_lastn',
                topic |-> sel_topic', labels |-> r.labels, consumed |-> r.consumed,
                had_series |-> chart.datasets # <<>>, cursor |-> icor]
      /\ last' = [event |-> event, raised |-> r.raised]

\* No call is remembered.
NoMemo == [set |-> FALSE, call |-> <<>>, datasets |-> <<>>]

\* A request just issued: no later response has been applied yet.
NewRequest == [superseded |-> FALSE]

\* The state once the script has loaded: the chart is constructed with
\* data: {}, and fetch_the_goods() has run once, so a request is in flight
\* and update_brokers() and u(true) have run on the empty index.  The topic
\* is the one the page shows selected, the sample count the one it shows.

Init ==
  /\ msgs = <<>>
  /\ per_broker = EmptyObject
  /\ icor = 0
  /\ chart = [labels |-> <<>>, datasets |-> <<>>]
  /\ sel_broker = ""
  /\ sel_options = <<"">>
  /\ sel_topic \in Topics
  /\ in_lastn = MaxLastn
  /\ pending = <<NewRequest>>
  /\ rc = [broker |-> "", msgarr |-> <<>>, lastn |-> in_lastn, topic |-> sel_topic,
           labels |-> <<>>, consumed |-> <<>>, had_series |-> FALSE, cursor |-> 0]
  /\ last = [event |-> "tick", raised |-> FALSE]
  /\ memo = NoMemo

\* fetch_the_goods(), run by setInterval: the request is issued, and the
\* option list and the chart are redone from the index as it is now.
TickIdle ==
  /\ Len(pending) < MaxInflight
  /\ pending' = Append(pending, NewRequest)
  /\ last' = [event |-> "tick", raised |-> FALSE]
  /\ UNCHANGED <<msgs, per_broker, icor, chart, sel_broker, sel_options, sel_topic,
                 in_lastn, rc>>
Tick ==
  /\ Len(pending) < MaxInflight
  /\ pending' = Append(pending, NewRequest)
  /\ LET sel == update_brokers(per_broker, sel_broker)
     IN /\ sel_options' = sel.options
        /\ sel_broker' = sel.value
        /\ UNCHANGED <<sel_topic, in_lastn>>
        /\ u(per_broker, sel.value, "tick")
  /\ UNCHANGED <<msgs, per_broker>>

Without(s, i) == SubSeq(s, 1, i - 1) \o SubSeq(s, i + 1, Len(s))

\* The response of request i is delivered: the callback of line 35 runs on
\* its body.  The requests issued before it are now older than the snapshot.
AfterDelivery(i) ==
  Without([j \in DOMAIN pending |->
             IF j < i THEN [superseded |-> TRUE] ELSE pending[j]], i)

DeliverOf(bodies) ==
  \E i \in DOMAIN pending, json \in bodies :
    LET r == OnResponse(json, per_broker)
    IN /\ msgs' = r.msgs
       /\ per_broker' = r.per_broker
       /\ pending' = AfterDelivery(i)
       /\ last' = [event |-> "delivered", raised |-> r.raised]
       /\ UNCHANGED <<icor, chart, sel_broker, sel_options, sel_topic, in_lastn, rc>>

Deliver == DeliverOf(Responses)

\* Request i fails: the network rejects it, or resp.json() rejects its body.
\* Either way the promise is rejected and neither then-callback runs.
FetchClears ==
  \E i \in DOMAIN pending :
    /\ pending' = Without(pending, i)
    /\ msgs' = <<>>
    /\ per_broker' = EmptyObject
    /\ last' = [event |-> "failed", raised |-> FALSE]
    /\ UNCHANGED <<icor, chart, sel_broker, sel_options, sel_topic, in_lastn, rc>>
FetchFails ==
  \E i \in DOMAIN pending :
    /\ pending' = Without(pending, i)
    /\ last' = [event |-> "failed", raised |-> FALSE]
    /\ UNCHANGED <<msgs, per_broker, icor, chart, sel_broker, sel_options,
                   sel_topic, in_lastn, rc>>

\* The user picks an option of sel_broker, and u() runs.
UserSelectsBroker ==
  \E b \in {sel_options[i] : i \in DOMAIN sel_options} :
    /\ sel_broker' = b
    /\ UNCHANGED <<sel_topic, in_lastn>>
    /\ u(per_broker, b, "user")
    /\ UNCHANGED <<msgs, per_broker, sel_options, pending>>

\* The user picks a topic, and u() runs.
UserSelectsTopic ==
  \E t \in Topics :
    /\ sel_topic' = t
    /\ UNCHANGED in_lastn
    /\ u(per_broker, sel_broker, "user")
    /\ UNCHANGED <<msgs, per_broker, sel_broker, sel_options, pending>>

\* The user types a sample count, and u() runs.
UserTypesLastn ==
  \E n \in Lastns :
    /\ in_lastn' = n
    /\ UNCHANGED sel_topic
    /\ u(per_broker, sel_broker, "user")
    /\ UNCHANGED <<msgs, per_broker, sel_broker, sel_options, pending>>

\* The polling loop, with the user choosing among the brokers listed.
Next ==
  \/ Tick /\ UNCHANGED memo
  \/ Deliver /\ UNCHANGED memo
  \/ FetchFails /\ UNCHANGED memo
  \/ UserSelectsBroker /\ UNCHANGED memo

Spec == Init /\ [][Next]_vars

\* The polling loop under its timer, on response bodies of at most MaxBody
\* messages: setInterval runs fetch_the_goods again and again, so a tick
\* that can run does run.
DeliverShort == DeliverOf(ListsOf(FeedPool, MaxBody))

NextFair ==
  \/ Tick /\ UNCHANGED memo
  \/ DeliverShort /\ UNCHANGED memo
  \/ FetchFails /\ UNCHANGED memo
  \/ UserSelectsBroker /\ UNCHANGED memo

SpecFair == Init /\ [][NextFair]_vars /\ WF_vars(Tick /\ UNCHANGED memo)

\* The series builder on its own: some snapshot has been delivered and
\* indexed, the option list was built at an earlier tick, no request is in
\* flight, and the user changes the broker, the topic and the sample count.
InitSeries ==
  /\ \E json \in ListsOf(SeriesPool, MaxArr) :
       LET r == OnResponse(json, EmptyObject)
       IN msgs = r.msgs /\ per_broker = r.per_broker
  /\ icor = 0
  /\ chart = [labels |-> <<>>, datasets |-> <<>>]
  /\ sel_broker = ""
  /\ sel_options = <<"", "b1", "b2">>
  /\ sel_topic \in Topics
  /\ in_lastn \in Lastns
  /\ pending = <<>>
  /\ rc = [broker |-> "", msgarr |-> <<>>, lastn |-> in_lastn, topic |-> sel_topic,
           labels |-> <<>>, consumed |-> <<>>, had_series |-> FALSE, cursor |-> 0]
  /\ last = [event |-> "tick", raised |-> FALSE]
  /\ memo = NoMemo

NextSeries ==
  \/ UserSelectsBroker /\ UNCHANGED memo
  \/ UserSelectsTopic /\ UNCHANGED memo
  \/ UserTypesLastn /\ UNCHANGED memo

SpecSeries == InitSeries /\ [][NextSeries]_vars

\* The series builder called again and again on the messages of two sensors
\* and two topics, any one of the calls being remembered.
RepeatPool ==
  { Message("b1", At(0, 0, 100), Payload(<<Reading("Temperature", NumSid(1), <<20>>)>>)),
    Message("b1", At(0, 0, 100), Payload(<<Reading("Temperature", NumSid(2), <<22>>)>>)),
    Message("b1", At(0, 1, 0), Payload(<<Reading("Humidity", NumSid(1), <<50>>)>>)) }

InitRepeat ==
  /\ \E json \in ListsOf(RepeatPool, MaxArr) :
       LET r == OnResponse(json, EmptyObject)
       IN msgs = r.msgs /\ per_broker = r.per_broker
  /\ icor = 0
  /\ chart = [labels |-> <<>>, datasets |-> <<>>]
  /\ sel_broker = ""
  /\ sel_options = <<"", "b1", "b2">>
  /\ sel_topic \in Topics
  /\ in_lastn \in Lastns
  /\ pending = <<>>
  /\ rc = [broker |-> "", msgarr |-> <<>>, lastn |-> in_lastn, topic |-> sel_topic,
           labels |-> <<>>, consumed |-> <<>>, had_series |-> FALSE, cursor |-> 0]
  /\ last = [event |-> "tick", raised |-> FALSE]
  /\ memo = NoMemo

\* The call just made is remembered, or the memo is kept.
Remember == memo' = [set |-> TRUE, call |-> rc', datasets |-> chart'.datasets]

NextRepeat ==
  \/ UserSelectsBroker /\ UNCHANGED memo
  \/ UserSelectsBroker /\ Remember
  \/ UserSelectsTopic /\ UNCHANGED memo
  \/ UserSelectsTopic /\ Remember
  \/ UserTypesLastn /\ UNCHANGED memo
  \/ UserTypesLastn /\ Remember

SpecRepeat == InitRepeat /\ [][NextRepeat]_vars

\* One broker with k sensors, numbered from 1, each reporting one temperature
\* a second after the one before.
SensorList(k) ==
  [i \in 1..k |->
     Message("b1", At(0, i, 0), Payload(<<Reading("Temperature", NumSid(i), <<20>>)>>))]

\* The series builder on the messages of up to MaxSensors sensors, the
\* sample count being large enough to take them all or smaller.
InitPalette ==
  /\ \E k \in 0..MaxSensors :
       LET r == OnResponse(SensorList(k), EmptyObject)
       IN msgs = r.msgs /\ per_broker = r.per_broker
  /\ icor = 0
  /\ chart = [labels |-> <<>>, datasets |-> <<>>]
  /\ sel_broker = ""
  /\ sel_options = <<"", "b1", "b2">>
  /\ sel_topic \in Topics
  /\ in_lastn \in 0..MaxSensors
  /\ pending = <<>>
  /\ rc = [broker |-> "", msgarr |-> <<>>, lastn |-> in_lastn, topic |-> sel_topic,
           labels |-> <<>>, consumed |-> <<>>, had_series |-> FALSE, cursor |-> 0]
  /\ last = [event |-> "tick", raised |-> FALSE]
  /\ memo = NoMemo

SpecPalette == InitPalette /\ [][NextSeries]_vars

\* The messages the flattener is exercised on: a SensorData mapping of two
\* topic entries, one whose last entry holds nothing but its sensor_id, an
\* empty mapping, and a mapping of one entry.
FlatPool ==
  { Message("b1", At(0, 0, 0),
            Payload(<<Reading("Temperature", NumSid(1), <<20>>),
                      Reading("Humidity", NumSid(2), <<50>>)>>)),
    Message("b1", At(0, 1, 0),
            Payload(<<Reading("Temperature", NumSid(1), <<21>>),
                      Reading("Humidity", NumSid(2), <<>>)>>)),
    Message("b1", At(0, 2, 0), Payload(<<>>)),
    Message("b1", At(0, 3, 0), Payload(<<Reading("Temperature", NumSid(1), <<22>>)>>)) }

\* The flattener and the series builder after it: the option list was built
\* at an earlier tick, a request is in flight, its response is a list of
\* such messages, and the user changes the broker, the topic and the sample
\* count.
InitFlat ==
  /\ msgs = <<>>
  /\ per_broker = EmptyObject
  /\ icor = 0
  /\ chart = [labels |-> <<>>, datasets |-> <<>>]
  /\ sel_broker = ""
  /\ sel_options = <<"", "b1", "b2">>
  /\ sel_topic \in Topics
  /\ in_lastn \in Lastns
  /\ pending = <<NewRequest>>
  /\ rc = [broker |-> "", msgarr |-> <<>>, lastn |-> in_lastn, topic |-> sel_topic,
           labels |-> <<>>, consumed |-> <<>>, had_series |-> FALSE, cursor |-> 0]
  /\ last = [event |-> "tick", raised |-> FALSE]
  /\ memo = NoMemo

DeliverFlat == DeliverOf(ListsOf(FlatPool, MaxArr))

NextFlat ==
  \/ DeliverFlat /\ UNCHANGED memo
  \/ UserSelectsBroker /\ UNCHANGED memo
  \/ UserSelectsTopic /\ UNCHANGED memo
  \/ UserTypesLastn /\ UNCHANGED memo

SpecFlat == InitFlat /\ [][NextFlat]_vars

\* ------------------------------------------------------------ broker index

Keys(index) == DOMAIN index.at

\* The callback of the latest delivery ran to its end: every message of the
\* snapshot carries its flat record.
Flattened == \A i \in DOMAIN msgs : msgs[i].flat.present

RECURSIVE SumLen(_, _)
SumLen(index, ks) ==
  IF ks = {} THEN 0
  ELSE LET k == CHOOSE x \in ks : TRUE
       IN Len(index.at[k]) + SumLen(index, ks \ {k})

\* C1: after fetch deliveries whose callback ran to its end, per_broker is
\* the partition of the latest delivered list by broker_id: the bucket sizes
\* sum to the length of the list, the keys are the broker ids of the list,
\* each bucket is the sub-list of the messages of its broker id, in order,
\* and so nothing of an earlier delivery remains.
BrokerIndexIsPartition ==
  Flattened =>
    /\ SumLen(per_broker, Keys(per_broker)) = Len(msgs)
    /\ Keys(per_broker) = {BrokerKey(msgs[i].broker_id) : i \in DOMAIN msgs}
    /\ \A k \in Keys(per_broker) :
         per_broker.at[k] = SelectSeq(msgs, LAMBDA m : BrokerKey(m.broker_id) = k)

\* A second delivery has replaced a snapshot by one with two brokers' messages.
TwoBucketsDelivered ==
  /\ last.event = "delivered"
  /\ Flattened
  /\ Keys(per_broker) = {"b1", "b2"}
  /\ Len(pending) = 0

\* C5: right after a delivery is handled, the broker option list and, with a
\* broker selected, the chart are those of the delivered snapshot.
RenderedOnDelivery ==
  (last.event = "delivered" /\ ~last.raised) =>
    /\ sel_options = <<"">> \o ForInBrokers(per_broker)
    /\ sel_broker # "" =>
         chart.datasets =
           rechart(BucketOf(per_broker, sel_broker), in_lastn, sel_topic, icor).datasets

\* C6: a fetch that fails leaves msgs and per_broker as they were; the
\* failed request is no longer in flight, so the next tick fetches again.
FailedFetchKeepsState ==
  [][last'.event = "failed" =>
       /\ msgs' = msgs
       /\ per_broker' = per_broker
       /\ Len(pending') < MaxInflight]_vars

\* A fetch has failed while a snapshot with messages was held.
FailedWithSnapshot ==
  /\ last.event = "failed"
  /\ msgs # <<>>
  /\ Keys(per_broker) # {}

\* C9: update_brokers leaves the previously selected broker selected when
\* it is a key of the index, and nothing selected otherwise.
SelectionFollowsIndex ==
  [][last'.event = "tick" =>
       sel_broker' = IF sel_broker \in Keys(per_broker') THEN sel_broker ELSE ""]_vars

\* A tick found the charted broker gone from the index and deselected it.
SelectionWasReset ==
  /\ last.event = "tick"
  /\ rc.had_series
  /\ sel_broker = ""
  /\ Keys(per_broker) # {}

\* ---------------------------------------------------------- series builder

\* Of the latest rechart call: the positions of msgarr whose flat topic is
\* the requested one, the positions it consumed, and its limit as a number.
Qualifying == {i \in DOMAIN rc.msgarr : rc.msgarr[i].flat.topic = rc.topic}
Consumed == {rc.consumed[j] : j \in DOMAIN rc.consumed}
Limit == IF rc.lastn = NaN THEN 0 ELSE rc.lastn
WhenOf(i) == rc.msgarr[i].flat.when
Smaller(a, b) == IF a < b THEN a ELSE b

SampleCap ==
  /\ Len(rc.labels) <= Limit
  /\ Len(rc.labels) = Cardinality(Consumed)
  /\ Consumed \subseteq Qualifying
  /\ Cardinality(Consumed) = Smaller(Limit, Cardinality(Qualifying))

\* C2, as claimed: rechart consumes at most N qualifying records, and they
\* are the N chronologically-latest ones whatever the stored order: no
\* qualifying record left out is later than a consumed one.
SampleCapLatestByInstant ==
  /\ SampleCap
  /\ \A c \in Consumed, q \in Qualifying \ Consumed :
       (WhenOf(c).kind = "ok" /\ WhenOf(q).kind = "ok") =>
         ~InstantLess(WhenOf(c), WhenOf(q))

\* C2, amended: rechart consumes at most N qualifying records, and they are
\* the last N qualifying records in stored order (all of them when fewer
\* than N qualify).
SampleCapLastStored ==
  /\ SampleCap
  /\ \A c \in Consumed, q \in Qualifying \ Consumed : q < c

\* The cap has cut off a qualifying record that is later than a consumed one.
CapCutsLaterRecord ==
  /\ last.event = "user"
  /\ Limit >= 1
  /\ Len(rc.labels) = Limit
  /\ \E c \in Consumed, q \in Qualifying \ Consumed :
       /\ WhenOf(c).kind = "ok" /\ WhenOf(q).kind = "ok"
       /\ InstantLess(WhenOf(c), WhenOf(q))

\* C3: every s.data[i] is the missing marker or the value this sensor
\* reported at exactly the instant labels[i].
ValuesAligned ==
  \A j \in DOMAIN chart.datasets, i \in DOMAIN rc.labels :
    LET v == chart.datasets[j].data[i]
    IN \/ v = UNDEF
       \/ \E k \in DOMAIN rc.msgarr :
            /\ rc.msgarr[k].flat.topic = rc.topic
            /\ PropertyKey(rc.msgarr[k].flat.sensor_id) = chart.datasets[j].label.id
            /\ rc.msgarr[k].flat.when = rc.labels[i]
            /\ rc.msgarr[k].flat.value = v

\* C4: the label axis is the set of the consumed records' timestamps, each
\* instant once, ascending by instant.
LabelAxisSortedUnion ==
  /\ {rc.labels[i] : i \in DOMAIN rc.labels} = {WhenOf(c) : c \in Consumed}
  /\ \A i, j \in DOMAIN rc.labels :
       (i < j /\ rc.labels[i].kind = "ok" /\ rc.labels[j].kind = "ok") =>
         InstantLess(rc.labels[i], rc.labels[j])

\* A payload without SensorData, a reading without sensor_id, or a
\* constructed_when that does not parse.
Malformed(m) ==
  \/ ~m.payload.has_sd
  \/ \E e \in DOMAIN m.payload.sd : m.payload.sd[e].sensor_id = UndefSid
  \/ m.constructed_when.kind # "ok"

\* C7: a malformed message makes neither simpleflat nor rechart raise and
\* is never consumed by rechart, so it gives no label, series or value.
MalformedDropped ==
  /\ Flattened
  /\ ~last.raised
  /\ \A c \in Consumed : ~Malformed(rc.msgarr[c])

\* C8: when nothing qualifies (an empty list, a broker absent from the
\* index, a limit of 0, no record of the topic), u()/rechart does not raise
\* and leaves an empty label axis and no series.
EmptyWhenNothingQualifies ==
  (\/ rc.msgarr = <<>>
   \/ ~HasOwnProperty(per_broker, rc.broker)
   \/ Limit = 0
   \/ Qualifying = {}) =>
    /\ ~last.raised
    /\ rc.consumed = <<>>
    /\ rc.labels = <<>>
    /\ chart.datasets = <<>>
    /\ chart.labels = <<>>

\* The user picked a broker that the index does not hold while the chart
\* showed series, and the chart is empty now.
AbsentBrokerEmptiesChart ==
  /\ last.event = "user"
  /\ rc.had_series
  /\ rc.broker # ""
  /\ ~HasOwnProperty(per_broker, rc.broker)
  /\ chart.datasets = <<>>

\* C10: two rechart calls with the same message list, limit and topic give
\* the same labels, the same value arrays and the same colors, whatever
\* calls came before each.
SameCallSameChart ==
  (/\ memo.set
   /\ memo.call.msgarr = rc.msgarr
   /\ memo.call.lastn = rc.lastn
   /\ memo.call.topic = rc.topic) =>
    /\ memo.call.labels = rc.labels
    /\ memo.datasets = chart.datasets

\* The same call was made from two different cursor positions, each time
\* charting two sensors.
RepeatedFromOtherCursor ==
  /\ memo.set
  /\ memo.call.msgarr = rc.msgarr
  /\ memo.call.lastn = rc.lastn
  /\ memo.call.topic = rc.topic
  /\ memo.call.cursor # rc.cursor
  /\ Len(chart.datasets) = 2

\* C11: in the output of a rechart call the series take the colors of the
\* palette in palette order from the first color on, and no two series of
\* the chart have the same color, however many sensors were consumed.
PaletteColorsDistinct ==
  /\ \A j \in DOMAIN chart.datasets :
       chart.datasets[j].borderColor = color(j - 1)
  /\ \A i, j \in DOMAIN chart.datasets :
       i # j => chart.datasets[i].borderColor # chart.datasets[j].borderColor

\* ---------------------------------------------------------------- flattener

\* The value of a reading: that of its last key other than sensor_id.
ValueOf(entry) ==
  IF entry.metrics = <<>> THEN UNDEF ELSE entry.metrics[Len(entry.metrics)]

\* C12: when SensorData has several topic entries, the flat record is that
\* of the last entry iterated: its topic, its sensor_id and its value (none
\* when that entry has no metric key), and nothing of an earlier entry.
LastEntryWins ==
  \A i \in DOMAIN msgs :
    LET sd == msgs[i].payload.sd
    IN Len(sd) >= 2 =>
         /\ msgs[i].flat.present
         /\ msgs[i].flat.topic = ToLowerCase(sd[Len(sd)].kn)
         /\ msgs[i].flat.sensor_id = sd[Len(sd)].sensor_id
         /\ msgs[i].flat.value = ValueOf(sd[Len(sd)])

\* The message has a payload whose SensorData mapping has no entry.
EmptyData(m) == m.payload.present /\ m.payload.sd = <<>>

\* The series builder went over the messages without raising and consumed
\* none with an empty SensorData mapping.
EmptyDataPassedOver ==
  /\ ~last.raised
  /\ \A c \in {rc.consumed[j] : j \in DOMAIN rc.consumed} : ~EmptyData(rc.msgarr[c])

\* C13, as claimed: on an empty SensorData mapping simpleflat leaves the
\* message without a flat annotation, and the series builder does not raise
\* on a list holding such a message.
EmptyDataLeavesNoFlat ==
  /\ \A i \in DOMAIN msgs : EmptyData(msgs[i]) => ~msgs[i].flat.present
  /\ EmptyDataPassedOver

\* C13, amended: on an empty SensorData mapping simpleflat annotates the
\* message with an empty flat record (no topic, sensor_id, value or when),
\* and the series builder does not raise on a list holding such a message
\* and never consumes it.
EmptyDataLeavesEmptyFlat ==
  /\ \A i \in DOMAIN msgs : EmptyData(msgs[i]) => msgs[i].flat = EmptyFlat
  /\ EmptyDataPassedOver

\* The series builder consumed a record stored before a message with an
\* empty SensorData mapping, which its walk met first.
WalkedOverEmptyData ==
  /\ last.event = "user"
  /\ Len(rc.msgarr) = 2
  /\ EmptyData(rc.msgarr[2])
  /\ rc.consumed = <<1>>

\* ------------------------------------------------------------ polling loop

\* C14: at no time are two fetch requests in flight together.
OneRequestInFlight == Len(pending) <= 1

\* ---------------------------------------------------------- series builder

\* The distinct elements of a sequence, in the order of their first
\* occurrence.
RECURSIVE FirstSeen(_, _)
FirstSeen(ids, acc) ==
  IF ids = <<>> THEN acc
  ELSE IF \E k \in DOMAIN acc : acc[k] = Head(ids)
       THEN FirstSeen(Tail(ids), acc)
       ELSE FirstSeen(Tail(ids), Append(acc, Head(ids)))

\* The sensor keys of the consumed records, in the order of the walk.
WalkedSensors ==
  [j \in DOMAIN rc.consumed |-> PropertyKey(rc.msgarr[rc.consumed[j]].flat.sensor_id)]

\* The sensor groups of the latest rechart call, as they are emitted.
EmittedGroups ==
  LET fps == rechart(rc.msgarr, rc.lastn, rc.topic, rc.cursor).fps
  IN [k \in DOMAIN fps.at |-> Reverse(fps.at[k])]

\* The flat records of the consumed positions of one sensor, in stored order.
StoredGroup(k) ==
  LET flats == [i \in DOMAIN rc.msgarr |-> rc.msgarr[i].flat]
      picked == {i \in DOMAIN rc.msgarr :
                   /\ \E j \in DOMAIN rc.consumed : rc.consumed[j] = i
                   /\ PropertyKey(rc.msgarr[i].flat.sensor_id) = k}
      RECURSIVE Pick(_)
      Pick(i) == IF i > Len(flats) THEN <<>>
                 ELSE (IF i \in picked THEN <<flats[i]>> ELSE <<>>) \o Pick(i + 1)
  IN Pick(1)

\* C15: the series come in the order in which the newest-first walk first
\* met each sensor_id, integer ids included, and the records of each
\* sensor's group are emitted oldest stored first.
SeriesInEncounterOrder ==
  /\ [j \in DOMAIN chart.datasets |-> chart.datasets[j].label.id]
       = FirstSeen(WalkedSensors, <<>>)
  /\ \A k \in DOMAIN EmittedGroups : EmittedGroups[k] = StoredGroup(k)

\* C16: after a call to rechart the chart's label axis is the one the call
\* computed, there is one dataset per sensor group, labelled
\* "Sensor #<sensor_id>", and every data array is as long as the chart's
\* label axis.
ChartCarriesLabels ==
  /\ chart.labels = rc.labels
  /\ Len(chart.datasets) = Len(FirstSeen(WalkedSensors, <<>>))
  /\ \A j \in DOMAIN chart.datasets :
       /\ chart.datasets[j].label.text = "Sensor #"
       /\ \E k \in DOMAIN WalkedSensors : chart.datasets[j].label.id = WalkedSensors[k]
       /\ Len(chart.datasets[j].data) = Len(chart.labels)

\* ------------------------------------------------------------ polling loop

\* The index is the partition of the list by broker_id.
PartitionOf(index, list) ==
  /\ Keys(index) = {BrokerKey(list[i].broker_id) : i \in DOMAIN list}
  /\ \A k \in Keys(index) :
       index.at[k] = SelectSeq(list, LAMBDA m : BrokerKey(m.broker_id) = k)

\* C17: whenever a tick or a user-triggered update reads the broker index,
\* per_broker is the complete partition of msgs, also after a delivery
\* whose list holds a message on which flattening raises.
IndexConsistentWhenRead ==
  [][last'.event \in {"tick", "user"} => PartitionOf(per_broker, msgs)]_vars

\* C18: the response of a request issued before the request whose response
\* made the current snapshot never overwrites msgs and per_broker.
SnapshotNeverRegresses ==
  [][\A i \in DOMAIN pending :
       (/\ pending[i].superseded
        /\ last'.event = "delivered"
        /\ pending' = AfterDelivery(i)) =>
         (msgs' = msgs /\ per_broker' = per_broker)]_vars

\* The broker ids of the snapshot, in the order they first occur.
BrokersOf(list) ==
  FirstSeen([i \in DOMAIN list |-> BrokerKey(list[i].broker_id)], <<>>)

\* The page shows the snapshot: the option list holds exactly the broker
\* ids of the list, and the datasets are those rechart gives for the
\* messages of the selected broker in the list, the topic and the sample
\* count shown.
Shows(list, options, broker, lastn, topic, datasets) ==
  /\ options = <<"">> \o BrokersOf(list)
  /\ datasets =
       rechart(SelectSeq(list, LAMBDA m : BrokerKey(m.broker_id) = broker),
               lastn, topic, 0).datasets

ShowsSnapshot ==
  Shows(msgs, sel_options, sel_broker, in_lastn, sel_topic, chart.datasets)

\* C19: under a fair timer a snapshot delivered by a callback that ran to
\* its end is rendered if it stays current: every tick leaves the page
\* showing the snapshot current at that tick, and after every such delivery
\* the page comes to show the current snapshot unless a delivery whose
\* callback raised has replaced it.
DeliveredSnapshotRendered ==
  /\ [][(last'.event = "tick" /\ Flattened) =>
         \E list \in {msgs'}, options \in {sel_options'}, broker \in {sel_broker'},
            lastn \in {in_lastn'}, topic \in {sel_topic'},
            datasets \in {chart'.datasets} :
           Shows(list, options, broker, lastn, topic, datasets)]_vars
  /\ (last.event = "delivered" /\ Flattened) ~> (ShowsSnapshot \/ ~Flattened)

\* A tick has drawn the series of the selected broker from a snapshot
\* delivered after the chart was last drawn, the chart having been empty.
TickDrewNewSnapshot ==
  /\ last.event = "tick"
  /\ Flattened
  /\ ~rc.had_series
  /\ sel_broker # ""
  /\ chart.datasets # <<>>

====
